---- MODULE Spec2Model ----
(***************************************************************************)
(* Model of waybar/scripts/weather.py: the Weather object, its refresh     *)
(* (request + get_weather), its print method and the loop of main().       *)
(*                                                                         *)
(* A Python str is a sequence of characters.  A character is a one-letter  *)
(* string; a non-ASCII character is written "U+XXXX" (its code point).     *)
(* A JSON number is [t |-> "int", v |-> n], or [t |-> "float", v |-> n]    *)
(* for the float n/10 (floats are restricted to one decimal, for which     *)
(* round(x, ndigits=1) is exact), or [t |-> "str", v |-> n] for the        *)
(* decimal string of n (the API sends "cod": "404" on errors).             *)
(***************************************************************************)
EXTENDS Integers, Sequences, FiniteSets, TLC

\* Python None where a str is expected (no str equals it: "None" is not a character)
None == <<"None">>

\* Python None where a number is expected
NoneNum == [t |-> "none", v |-> 0]

IntNum(n) == [t |-> "int", v |-> n]

FloatNum(tenths) == [t |-> "float", v |-> tenths]

StrNum(n) == [t |-> "str", v |-> n]

\* truth value of a str-or-None
Truthy(s) == s # None /\ s # <<>>

\* truth value of a number-or-None
TruthyNum(x) == x.t # "none" /\ x.v # 0

Digit == <<"0", "1", "2", "3", "4", "5", "6", "7", "8", "9">>

RECURSIVE NatStr(_)
NatStr(n) == IF n < 10 THEN <<Digit[n + 1]>> ELSE NatStr(n \div 10) \o <<Digit[(n % 10) + 1]>>

\* str(n) of a Python int
IntStr(n) == IF n < 0 THEN <<"-">> \o NatStr(-n) ELSE NatStr(n)

\* repr of the Python float tenths/10
FloatStr(tenths) ==
    LET a == IF tenths < 0 THEN -tenths ELSE tenths
    IN  (IF tenths < 0 THEN <<"-">> ELSE <<>>) \o NatStr(a \div 10) \o <<".">> \o <<Digit[(a % 10) + 1]>>

\* f"{x}" of a number
NumStr(x) == IF x.t = "float" THEN FloatStr(x.v) ELSE IntStr(x.v)

\* round(x, ndigits=1): an int stays an int, a float with one decimal is unchanged
Round1(x) == x

\* round(x): an int stays an int, a float goes to the nearest int, ties to even
Round0(x) ==
    IF x.t # "float" THEN IntNum(x.v)
    ELSE LET q == (x.v - (x.v % 10)) \div 10
             r == x.v % 10
         IN  IntNum(IF r < 5 THEN q ELSE IF r > 5 THEN q + 1 ELSE IF q % 2 = 0 THEN q ELSE q + 1)

Two(n) == <<Digit[(n \div 10) + 1], Digit[(n % 10) + 1]>>

\* datetime.fromtimestamp(dt).strftime("%H:%M") in a zone utcoffset seconds east of UTC
StrfTime(dt, utcoffset) ==
    LET m == ((dt + utcoffset) \div 60) % 1440
    IN  Two(m \div 60) \o <<":">> \o Two(m % 60)

Upper ==
    ("a" :> "A") @@ ("b" :> "B") @@ ("c" :> "C") @@ ("d" :> "D") @@ ("e" :> "E") @@ ("f" :> "F") @@
    ("g" :> "G") @@ ("h" :> "H") @@ ("i" :> "I") @@ ("j" :> "J") @@ ("k" :> "K") @@ ("l" :> "L") @@
    ("m" :> "M") @@ ("n" :> "N") @@ ("o" :> "O") @@ ("p" :> "P") @@ ("q" :> "Q") @@ ("r" :> "R") @@
    ("s" :> "S") @@ ("t" :> "T") @@ ("u" :> "U") @@ ("v" :> "V") @@ ("w" :> "W") @@ ("x" :> "X") @@
    ("y" :> "Y") @@ ("z" :> "Z")

IsLower(c) == c \in DOMAIN Upper

IsUpper(c) == \E l \in DOMAIN Upper : Upper[l] = c

ToLower(c) == IF IsUpper(c) THEN CHOOSE l \in DOMAIN Upper : Upper[l] = c ELSE c

ToUpper(c) == IF IsLower(c) THEN Upper[c] ELSE c

IsCased(c) == IsLower(c) \/ IsUpper(c)

\* str.title(): a letter after a non-letter is upper-cased, a letter after a letter lower-cased
Title(s) ==
    [i \in 1..Len(s) |-> IF i > 1 /\ IsCased(s[i - 1]) THEN ToLower(s[i]) ELSE ToUpper(s[i])]

\* str.replace(old, new) for a non-empty old: all non-overlapping occurrences, left to right
RECURSIVE Replace(_, _, _)
Replace(s, old, new) ==
    LET found == {i \in 1..(Len(s) - Len(old) + 1) : SubSeq(s, i, i + Len(old) - 1) = old}
    IN  IF found = {} THEN s
        ELSE LET first == CHOOSE i \in found : \A j \in found : i <= j
             IN  SubSeq(s, 1, first - 1) \o new
                 \o Replace(SubSeq(s, first + Len(old), Len(s)), old, new)

\* the four hex digits json.dumps writes after \u for the non-ASCII characters in use
CodePoint ==
    ("U+00B0" :> <<"0", "0", "b", "0">>) @@
    ("U+2191" :> <<"2", "1", "9", "1">>) @@ ("U+2197" :> <<"2", "1", "9", "7">>) @@
    ("U+2192" :> <<"2", "1", "9", "2">>) @@ ("U+2198" :> <<"2", "1", "9", "8">>) @@
    ("U+2193" :> <<"2", "1", "9", "3">>) @@ ("U+2199" :> <<"2", "1", "9", "9">>) @@
    ("U+2190" :> <<"2", "1", "9", "0">>) @@ ("U+2196" :> <<"2", "1", "9", "6">>) @@
    ("U+F76C" :> <<"f", "7", "6", "c">>) @@ ("U+F738" :> <<"f", "7", "3", "8">>) @@
    ("U+F740" :> <<"f", "7", "4", "0">>) @@ ("U+F2DC" :> <<"f", "2", "d", "c">>) @@
    ("U+F185" :> <<"f", "1", "8", "5">>) @@ ("U+F0C2" :> <<"f", "0", "c", "2">>)

\* json.dumps of one character inside a string (ensure_ascii is on by default)
JsonChar(c) ==
    IF c = "\"" THEN <<"\\", "\"">>
    ELSE IF c = "\\" THEN <<"\\", "\\">>
    ELSE IF c = "\n" THEN <<"\\", "n">>
    ELSE IF c \in DOMAIN CodePoint THEN <<"\\", "u">> \o CodePoint[c]
    ELSE <<c>>

\* the characters of s, each as json.dumps writes it, one after the other
RECURSIVE JsonChars(_)
JsonChars(s) ==
    IF s = <<>> THEN <<>>
    ELSE IF Len(s) = 1 THEN JsonChar(s[1])
    ELSE LET half == Len(s) \div 2
         IN  JsonChars(SubSeq(s, 1, half)) \o JsonChars(SubSeq(s, half + 1, Len(s)))

\* json.dumps of a str
JsonStr(s) == <<"\"">> \o JsonChars(s) \o <<"\"">>

\* json.dumps of a dict of str to str, given as its items in insertion order
RECURSIVE JsonItems(_)
JsonItems(items) ==
    IF items = <<>> THEN <<>>
    ELSE JsonStr(Head(items)[1]) \o <<":", " ">> \o JsonStr(Head(items)[2])
         \o (IF Len(items) > 1 THEN <<",", " ">> ELSE <<>>) \o JsonItems(Tail(items))

JsonDumps(items) == <<"{">> \o JsonItems(items) \o <<"}">>

(***************************************************************************)
(* The Weather class.  An object is the function from the names of the     *)
(* attributes that exist to their values; reading one that does not exist   *)
(* raises AttributeError.  A JSON document is the function from its keys    *)
(* (nested keys joined by a dot) to their values; reading a missing key     *)
(* raises KeyError.                                                         *)
(***************************************************************************)

\* Unit(Enum) values
Unit == {"standard", "metric", "imperial"}

\* Weather.__init__
WeatherInit(api_key, location, units) ==
    [api_key |-> api_key, location |-> location, units |-> units, error |-> None]

\* the value a Python name is bound to after request(): a parsed JSON value or None
NoneValue == [kind |-> "none", doc |-> <<>>]

\* truth value of what request() returned: None and {} are false
TruthyValue(raw) == raw.kind = "dict" /\ DOMAIN raw.doc # {}

\* the except clause of request() that catches an exception of class exc
\* (ConnectTimeout derives from both ConnectionError and Timeout: the first clause wins)
ExceptLabel(exc) ==
    IF exc = "HTTPError" THEN <<"H", "t", "t", "p", " ", "E", "r", "r", "o", "r">>
    ELSE IF exc \in {"ConnectionError", "ConnectTimeout"}
         THEN <<"C", "o", "n", "n", "e", "c", "t", "i", "o", "n", " ", "E", "r", "r", "o", "r">>
    ELSE IF exc \in {"Timeout", "ReadTimeout"}
         THEN <<"T", "i", "m", "e", "o", "u", "t", " ", "E", "r", "r", "o", "r">>
    ELSE <<"E", "r", "r", "o", "r">>

\* Weather.request: r is what requests.get(...).json() does, return a value or raise
request(self, r) ==
    IF r.kind = "raise"
    THEN [self |-> [error |-> ExceptLabel(r.exc), error_tooltip |-> r.msg] @@ self,
          ret |-> NoneValue]
    ELSE [self |-> self, ret |-> [kind |-> r.kind, doc |-> r.doc]]

WindIcons == <<"U+2191", "U+2197", "U+2192", "U+2198", "U+2193", "U+2199", "U+2190", "U+2196">>

WindTexts == << <<"N">>, <<"N", "E">>, <<"E">>, <<"S", "E">>, <<"S">>, <<"S", "W">>, <<"W">>, <<"N", "W">> >>

\* a variant of the bucket that rounds to the nearest sector instead of taking the floor
WindBucketNearest(deg) == ((deg + 22) \div 45) % 8

\* self.wind_direction // 45 % 8
WindBucket(deg) == (deg \div 45) % 8

WeatherIcons ==
    (<<"T", "h", "u", "n", "d", "e", "r", "s", "t", "o", "r", "m">> :> <<"U+F76C">>) @@
    (<<"D", "r", "i", "z", "z", "l", "e">> :> <<"U+F738">>) @@
    (<<"R", "a", "i", "n">> :> <<"U+F740">>) @@
    (<<"S", "n", "o", "w">> :> <<"U+F2DC">>) @@
    (<<"C", "l", "e", "a", "r">> :> <<"U+F185">>) @@
    (<<"C", "l", "o", "u", "d", "s">> :> <<"U+F0C2">>)

TemperatureUnit(units) ==
    IF units = "metric" THEN <<"U+00B0", "C">>
    ELSE IF units = "imperial" THEN <<"U+00B0", "F">>
    ELSE IF units = "standard" THEN <<" ", "K">>
    ELSE <<>>

\* the keys get_weather reads without a try from a document with cod == 200
SuccessKeys ==
    {"name", "dt", "main.temp", "main.feels_like", "main.temp_min", "main.temp_max",
     "wind.speed", "wind.deg", "weather.0.main", "weather.0.description", "main.humidity"}

\* Weather.get_weather; raised is TRUE when a KeyError leaves the method
get_weather(self, raw_data, utcoffset) ==
    LET d == raw_data.doc IN
    IF ~TruthyValue(raw_data) THEN [raised |-> FALSE, self |-> self]
    ELSE IF "cod" \notin DOMAIN d THEN [raised |-> TRUE, self |-> self]
    ELSE IF d["cod"] = IntNum(200)
    THEN IF ~(SuccessKeys \subseteq DOMAIN d) \/ d["weather.0.main"] \notin DOMAIN WeatherIcons
         THEN [raised |-> TRUE, self |-> self]
         ELSE [raised |-> FALSE,
               self |-> [city |-> d["name"],
                         datetime |-> StrfTime(d["dt"].v, utcoffset),
                         temperature |-> d["main.temp"],
                         temperature_feel |-> d["main.feels_like"],
                         temperature_min |-> d["main.temp_min"],
                         temperature_max |-> d["main.temp_max"],
                         temperature_unit |-> TemperatureUnit(self.units),
                         wind_speed |-> d["wind.speed"],
                         wind_direction |-> d["wind.deg"].v,
                         wind_direction_icon |-> <<WindIcons[WindBucket(d["wind.deg"].v) + 1]>>,
                         wind_direction_text |-> WindTexts[WindBucket(d["wind.deg"].v) + 1],
                         wind_gust |-> IF "wind.gust" \in DOMAIN d THEN d["wind.gust"] ELSE NoneNum,
                         wind_unit |-> <<"m", "/", "s">>,
                         weather |-> d["weather.0.main"],
                         weather_desc |-> d["weather.0.description"],
                         weather_humid |-> d["main.humidity"],
                         weather_icon |-> WeatherIcons[d["weather.0.main"]],
                         weather_unit |-> <<"%">>] @@ self]
    ELSE IF "message" \notin DOMAIN d THEN [raised |-> TRUE, self |-> self]
    ELSE [raised |-> FALSE,
          self |-> [error |-> <<"E", "r", "r", "o", "r", ":", " ">> \o NumStr(d["cod"]),
                    error_tooltip |-> IF Truthy(d["message"]) THEN d["message"]
                                      ELSE <<"S", "o", "m", "e", "t", "h", "i", "n", "g", " ",
                                             "w", "e", "n", "t", " ", "w", "r", "o", "n", "g">>]
                   @@ self]

\* Weather.refresh
refresh(self, r, utcoffset) ==
    LET q == request(self, r) IN get_weather(q.self, q.ret, utcoffset) @@ [ret |-> q.ret]

\* the attributes print() reads when self.error is false
SnapshotAttrs ==
    {"city", "datetime", "temperature", "temperature_feel", "temperature_min", "temperature_max",
     "temperature_unit", "wind_speed", "wind_direction", "wind_direction_icon",
     "wind_direction_text", "wind_gust", "wind_unit", "weather", "weather_desc", "weather_humid",
     "weather_icon", "weather_unit"}

\* the dict format_options of print(), as its items in insertion order
FormatOptions(self) ==
    << << <<"{", "c", "i", "t", "y", "}">>, self.city >>,
       << <<"{", "h", "u", "m", "i", "d", "i", "t", "y", "}">>,
          NumStr(Round1(self.weather_humid)) \o self.weather_unit >>,
       << <<"{", "t", "e", "m", "p", "e", "r", "a", "t", "u", "r", "e", "}">>,
          NumStr(Round1(self.temperature)) \o self.temperature_unit >>,
       << <<"{", "t", "e", "m", "p", "e", "r", "a", "t", "u", "r", "e", "F", "e", "e", "l", "}">>,
          NumStr(Round1(self.temperature_feel)) \o self.temperature_unit >>,
       << <<"{", "t", "e", "m", "p", "e", "r", "a", "t", "u", "r", "e", "M", "i", "n", "}">>,
          NumStr(Round1(self.temperature_min)) \o self.temperature_unit >>,
       << <<"{", "t", "e", "m", "p", "e", "r", "a", "t", "u", "r", "e", "M", "a", "x", "}">>,
          NumStr(Round1(self.temperature_max)) \o self.temperature_unit >>,
       << <<"{", "t", "i", "m", "e", "}">>, self.datetime >>,
       << <<"{", "w", "e", "a", "t", "h", "e", "r", "}">>, self.weather >>,
       << <<"{", "w", "e", "a", "t", "h", "e", "r", "I", "c", "o", "n", "}">>, self.weather_icon >>,
       << <<"{", "w", "e", "a", "t", "h", "e", "r", "D", "e", "s", "c", "}">>,
          Title(self.weather_desc) >>,
       << <<"{", "w", "i", "n", "d", "D", "i", "r", "e", "c", "t", "i", "o", "n", "}">>,
          IntStr(self.wind_direction) >>,
       << <<"{", "w", "i", "n", "d", "D", "i", "r", "e", "c", "t", "i", "o", "n", "I", "c", "o", "n", "}">>,
          self.wind_direction_icon >>,
       << <<"{", "w", "i", "n", "d", "D", "i", "r", "e", "c", "t", "i", "o", "n", "T", "e", "x", "t", "}">>,
          self.wind_direction_text >>,
       << <<"{", "w", "i", "n", "d", "S", "p", "e", "e", "d", "}">>,
          NumStr(Round0(self.wind_speed)) \o self.wind_unit >>,
       << <<"{", "w", "i", "n", "d", "G", "u", "s", "t", "}">>,
          IF TruthyNum(self.wind_gust) THEN NumStr(Round0(self.wind_gust)) \o self.wind_unit
          ELSE <<>> >> >>

\* the loop "for opt in format_options: fmt = fmt.replace(opt, format_options[opt])"
RECURSIVE ReplaceAll(_, _)
ReplaceAll(fmt, options) ==
    IF options = <<>> THEN fmt
    ELSE ReplaceAll(Replace(fmt, Head(options)[1], Head(options)[2]), Tail(options))

\* print(a, b, flush=True): the arguments joined by a space, then a newline
PrintSpace(a, b) == a \o <<" ">> \o b \o <<"\n">>

\* print(a, b, sep="\n", flush=True)
PrintLines(a, b) == a \o <<"\n">> \o b \o <<"\n">>

\* print(a, flush=True)
PrintOne(a) == a \o <<"\n">>

\* what print() writes when self.error is true
ErrorOutput(self, out_format) ==
    IF out_format
    THEN PrintSpace(self.error, self.error_tooltip)
    ELSE PrintOne(JsonDumps(<< << <<"t", "e", "x", "t">>, self.error >>,
                               << <<"t", "o", "o", "l", "t", "i", "p">>, self.error_tooltip >> >>))
         \o PrintSpace(self.error, self.error_tooltip)

\* a variant of the snapshot output whose JSON object carries a third key
SnapshotOutputWithClass(text, tooltip, out_format) ==
    IF out_format
    THEN PrintLines(text, tooltip)
    ELSE PrintOne(JsonDumps(<< << <<"t", "e", "x", "t">>, text >>,
                               << <<"t", "o", "o", "l", "t", "i", "p">>, tooltip >>,
                               << <<"c", "l", "a", "s", "s">>, <<"c", "o", "l", "d">> >> >>))

\* what print() writes when self.error is false
SnapshotOutput(text, tooltip, out_format) ==
    IF out_format
    THEN PrintLines(text, tooltip)
    ELSE PrintOne(JsonDumps(<< << <<"t", "e", "x", "t">>, text >>,
                               << <<"t", "o", "o", "l", "t", "i", "p">>, tooltip >> >>))

\* Weather.print; raised is TRUE when an AttributeError leaves the method,
\* out is what the call writes to standard output
weather_print(self, out_format, title_format, text_format) ==
    IF Truthy(self.error)
    THEN [raised |-> FALSE, self |-> self, out |-> ErrorOutput(self, out_format)]
    ELSE IF ~(SnapshotAttrs \subseteq DOMAIN self)
    THEN [raised |-> TRUE, self |-> self, out |-> <<>>]
    ELSE LET text == ReplaceAll(title_format, FormatOptions(self))
             tooltip == ReplaceAll(text_format, FormatOptions(self))
         IN  [raised |-> FALSE,
              self |-> [text |-> text, tooltip |-> tooltip] @@ self,
              out |-> SnapshotOutput(text, tooltip, out_format)]

(***************************************************************************)
(* The inputs: what requests.get(...).json() can do in one cycle, and the  *)
(* options main() resolves at startup.                                      *)
(***************************************************************************)

\* the longest run of cycles explored
MaxCycles == 3

\* the largest wind bearing explored (the claim on bearings covers d and d + 360, d < 360)
MaxBearing == 719

Returns(d) == [kind |-> "dict", exc |-> "", msg |-> <<>>, doc |-> d]

ReturnsNull == [kind |-> "none", exc |-> "", msg |-> <<>>, doc |-> <<>>]

Raises(exc, msg) == [kind |-> "raise", exc |-> exc, msg |-> msg, doc |-> <<>>]

NoResponse == [kind |-> "pending", exc |-> "", msg |-> <<>>, doc |-> <<>>]

Oslo == <<"O", "s", "l", "o">>

\* a complete document of a successful API call
OkDoc ==
    ("cod" :> IntNum(200)) @@ ("name" :> Oslo) @@ ("dt" :> IntNum(45000)) @@
    ("main.temp" :> IntNum(5)) @@ ("main.feels_like" :> FloatNum(25)) @@
    ("main.temp_min" :> FloatNum(-5)) @@ ("main.temp_max" :> FloatNum(71)) @@
    ("main.humidity" :> IntNum(81)) @@
    ("wind.speed" :> FloatNum(25)) @@ ("wind.deg" :> IntNum(90)) @@ ("wind.gust" :> FloatNum(76)) @@
    ("weather.0.main" :> <<"C", "l", "e", "a", "r">>) @@
    ("weather.0.description" :> <<"c", "l", "e", "a", "r", " ", "s", "k", "y">>)

\* d with key k set to v
With(d, k, v) == (k :> v) @@ d

Bergen == <<"B", "e", "r", "g", "e", "n">>

\* a second complete document, every field different from OkDoc
OkDoc2 ==
    ("cod" :> IntNum(200)) @@ ("name" :> Bergen) @@ ("dt" :> IntNum(86340)) @@
    ("main.temp" :> FloatNum(123)) @@ ("main.feels_like" :> IntNum(11)) @@
    ("main.temp_min" :> IntNum(10)) @@ ("main.temp_max" :> FloatNum(150)) @@
    ("main.humidity" :> FloatNum(405)) @@
    ("wind.speed" :> IntNum(3)) @@ ("wind.deg" :> IntNum(359)) @@
    ("weather.0.main" :> <<"R", "a", "i", "n">>) @@
    ("weather.0.description" :> <<"l", "i", "g", "h", "t", " ", "r", "a", "i", "n">>)

NotFound == <<"c", "i", "t", "y", " ", "n", "o", "t", " ", "f", "o", "u", "n", "d">>

\* documents of failed API calls
ErrDocs ==
    { ("cod" :> StrNum(404)) @@ ("message" :> NotFound),
      ("cod" :> IntNum(401)) @@ ("message" :> <<>>),
      ("cod" :> StrNum(404)) }

\* documents with cod == 200
OkDocs ==
    { OkDoc, OkDoc2,
      With(OkDoc, "wind.gust", IntNum(0)),
      With(OkDoc, "main.temp", FloatNum(50)),
      With(OkDoc, "weather.0.main", <<"M", "i", "s", "t">>),
      With(OkDoc, "name", <<"{", "h", "u", "m", "i", "d", "i", "t", "y", "}">>) }

TimedOut == <<"R", "e", "a", "d", " ", "t", "i", "m", "e", "d", " ", "o", "u", "t", ".">>

\* what requests.get(...).json() does in a cycle of the main specification
Responses ==
    {Returns(d) : d \in OkDocs \cup ErrDocs} \cup {Returns(<<>>), ReturnsNull} \cup
    {Raises(e, TimedOut) : e \in {"ConnectionError", "ConnectTimeout", "ReadTimeout", "TooManyRedirects"}}

DefaultTitle == <<"{", "t", "e", "m", "p", "e", "r", "a", "t", "u", "r", "e", "}">>

DefaultText == <<"{", "c", "i", "t", "y", "}">>

\* a tooltip template with text, an unknown token and several known ones
LongText ==
    <<"{", "c", "i", "t", "y", "}", " ", "{", "w", "e", "a", "t", "h", "e", "r", "D", "e", "s", "c", "}",
      " ", "{", "w", "i", "n", "d", "G", "u", "s", "t", "}", "{", "p", "r", "e", "s", "s", "u", "r", "e", "}",
      "{", "w", "i", "n", "d", "D", "i", "r", "e", "c", "t", "i", "o", "n", "T", "e", "x", "t", "}",
      "{", "c", "i", "t", "y", "}">>

TextFormats == {DefaultText, LongText}

UtcOffsets == {0, 3600}

\* weather        the Weather object built in main(): its attributes
\* out_format, title_format, text_format, interval
\*                the options main() resolved (out_format TRUE is --text)
\* utcoffset      the local time zone datetime.fromtimestamp uses
\* pc             where main() is: "refresh", "print", "printed" (print returned),
\*                or ended: "exited", "interrupted", "crashed" (uncaught exception)
\* cycle          the number of the current iteration of while True
\* response       what requests.get(...).json() did in the current cycle
\* stdout         what the current cycle has written to standard output so far
\* exit_code      the exit status of the process, -1 while it runs
\* failed_before  an earlier cycle's fetch raised or returned a non-200 document
VARIABLES weather, out_format, title_format, text_format, interval, utcoffset,
          pc, cycle, response, stdout, exit_code, failed_before

vars == <<weather, out_format, title_format, text_format, interval, utcoffset,
          pc, cycle, response, stdout, exit_code, failed_before>>

config == <<out_format, title_format, text_format, interval, utcoffset>>

\* a fetch that ends its cycle in an error: a transport failure or a non-200 document
Failed(r) == r.kind = "raise" \/ (r.kind = "dict" /\ "cod" \in DOMAIN r.doc /\ r.doc["cod"] # IntNum(200))

\* main() up to the loop: the options are resolved and the Weather object built
Startup(titles, texts, intervals) ==
    /\ \E u \in Unit : weather = WeatherInit(<<"k", "e", "y">>, Oslo, u)
    /\ out_format \in BOOLEAN
    /\ title_format \in titles
    /\ text_format \in texts
    /\ interval \in intervals
    /\ utcoffset \in UtcOffsets
    /\ pc = "refresh"
    /\ cycle = 1
    /\ response = NoResponse
    /\ stdout = <<>>
    /\ exit_code = -1
    /\ failed_before = FALSE

Init == Startup({DefaultTitle}, TextFormats, {0, 1})

\* weather.refresh() in the loop of main(); an uncaught KeyError ends the process with status 1
MainRefresh(R) ==
    /\ pc = "refresh"
    /\ \E r \in R :
        LET res == refresh(weather, r, utcoffset) IN
        /\ response' = r
        /\ weather' = res.self
        /\ pc' = IF res.raised THEN "crashed" ELSE "print"
        /\ exit_code' = IF res.raised THEN 1 ELSE exit_code
    /\ stdout' = <<>>
    /\ failed_before' = (failed_before \/ Failed(response))
    /\ UNCHANGED <<config, cycle>>

\* weather.print(...) in the loop of main(); an uncaught AttributeError ends the process with status 1
MainPrint ==
    /\ pc = "print"
    /\ LET res == weather_print(weather, out_format, title_format, text_format) IN
        /\ weather' = res.self
        /\ stdout' = stdout \o res.out
        /\ pc' = IF res.raised THEN "crashed" ELSE "printed"
        /\ exit_code' = IF res.raised THEN 1 ELSE exit_code
    /\ UNCHANGED <<config, cycle, response, failed_before>>

\* if interval == 0: exit()
MainExit ==
    /\ pc = "printed"
    /\ interval = 0
    /\ pc' = "exited"
    /\ exit_code' = 0
    /\ UNCHANGED <<weather, config, cycle, response, stdout, failed_before>>

\* sleep(interval), then the next iteration of while True
MainSleep ==
    /\ pc = "printed"
    /\ interval # 0
    /\ cycle < MaxCycles
    /\ pc' = "refresh"
    /\ cycle' = cycle + 1
    /\ UNCHANGED <<weather, config, response, stdout, exit_code, failed_before>>

\* interrupt_decorator: a KeyboardInterrupt anywhere in main() runs the handler, then exit()
Interrupt ==
    /\ pc \in {"refresh", "print", "printed"}
    /\ stdout' = stdout \o PrintOne(<<"I", "n", "t", "e", "r", "r", "u", "p", "t", "e", "d", "!", "\n",
                                      "e", "x", "i", "t", "i", "n", "g", ".", ".", ".">>)
    /\ pc' = "interrupted"
    /\ exit_code' = 0
    /\ UNCHANGED <<weather, config, cycle, response, failed_before>>

Next == MainRefresh(Responses) \/ MainPrint \/ MainExit \/ MainSleep \/ Interrupt

Spec == Init /\ [][Next]_vars

(***************************************************************************)
(* A second specification for the wind bearing: one cycle (interval 0) on   *)
(* a successful document with every bearing from 0 to MaxBearing.            *)
(***************************************************************************)

WindTitle ==
    <<"{", "w", "i", "n", "d", "D", "i", "r", "e", "c", "t", "i", "o", "n", "}", " ",
      "{", "w", "i", "n", "d", "D", "i", "r", "e", "c", "t", "i", "o", "n", "I", "c", "o", "n", "}">>

WindText ==
    <<"{", "w", "i", "n", "d", "D", "i", "r", "e", "c", "t", "i", "o", "n", "T", "e", "x", "t", "}">>

WindResponses == {Returns(With(OkDoc, "wind.deg", IntNum(d))) : d \in 0..MaxBearing}

InitWind == Startup({WindTitle}, {WindText}, {0})

NextWind == MainRefresh(WindResponses) \/ MainPrint \/ MainExit \/ Interrupt

SpecWind == InitWind /\ [][NextWind]_vars

(***************************************************************************)
(* Properties                                                               *)
(***************************************************************************)

\* the fetch of the current cycle returned a document with cod == 200
IsOkDoc(r) == r.kind = "dict" /\ "cod" \in DOMAIN r.doc /\ r.doc["cod"] = IntNum(200)

\* the fetch of the current cycle has been handed to get_weather
Refreshed == pc # "refresh" /\ response # NoResponse

\* what a cycle writes when it starts from a newly built Weather object
FreshOutput ==
    LET w0 == WeatherInit(weather.api_key, weather.location, weather.units)
        a == refresh(w0, response, utcoffset)
    IN  weather_print(a.self, out_format, title_format, text_format).out

Count(c, s) == Cardinality({i \in 1..Len(s) : s[i] = c})

TextKey == <<"t", "e", "x", "t">>

TooltipKey == <<"t", "o", "o", "l", "t", "i", "p">>

ClassKey == <<"c", "l", "a", "s", "s">>

\* C1: a cycle whose fetch returns a cod = 200 document after an earlier cycle ended in an
\* error prints the rendering of that document, as a newly started program would, and not
\* the earlier error.
C1_ErrorNotCarried ==
    (pc = "printed" /\ failed_before /\ IsOkDoc(response)) => stdout = FreshOutput

\* C2: in Json mode every cycle writes exactly one line, and that line is the one JSON
\* object {"text": ..., "tooltip": ...} (for a Timeout failure: the label "Timeout Error"
\* and its detail), with nothing after it.
C2_JsonOneLine ==
    (pc = "printed" /\ ~out_format) =>
        /\ Count("\n", stdout) = 1
        /\ Truthy(weather.error) =>
             stdout = PrintOne(JsonDumps(<< <<TextKey, weather.error>>,
                                            <<TooltipKey, weather.error_tooltip>> >>))
        /\ (response.kind = "raise" /\ response.exc = "ReadTimeout") =>
             stdout = PrintOne(JsonDumps(<< <<TextKey, <<"T", "i", "m", "e", "o", "u", "t", " ",
                                                         "E", "r", "r", "o", "r">> >>,
                                            <<TooltipKey, response.msg>> >>))

\* the snapshot attributes exist and hold the values of the current cycle's document
SnapshotOfCycle ==
    /\ IsOkDoc(response)
    /\ SnapshotAttrs \subseteq DOMAIN weather
    /\ SuccessKeys \subseteq DOMAIN response.doc
    /\ weather.city = response.doc["name"]
    /\ weather.temperature = response.doc["main.temp"]
    /\ weather.wind_direction = response.doc["wind.deg"].v
    /\ weather.weather = response.doc["weather.0.main"]
    /\ weather.weather_desc = response.doc["weather.0.description"]

\* the error attributes are set and come from the current cycle's fetch
ErrorOfCycle == Truthy(weather.error) /\ Failed(response)

\* C3: when print() is about to run, exactly one of the error and the snapshot of the
\* current cycle's document is set (never both, never neither), and what is set comes from
\* the current cycle's fetch.
C3_ExactlyOne ==
    pc = "print" =>
        /\ Truthy(weather.error) # (SnapshotAttrs \subseteq DOMAIN weather)
        /\ ErrorOfCycle \/ SnapshotOfCycle

ClosedCategories ==
    { <<"T", "h", "u", "n", "d", "e", "r", "s", "t", "o", "r", "m">>, <<"D", "r", "i", "z", "z", "l", "e">>,
      <<"R", "a", "i", "n">>, <<"S", "n", "o", "w">>, <<"C", "l", "e", "a", "r">>,
      <<"C", "l", "o", "u", "d", "s">> }

\* the current cycle's document is a complete cod = 200 document
CompleteOkDoc == IsOkDoc(response) /\ SuccessKeys \subseteq DOMAIN response.doc

\* C4: a cod = 200 document whose category is outside the closed set ends its cycle in an
\* error state shown as text/tooltip and does not end the process; a category inside the
\* set always gets its one glyph.
C4_UnknownCondition ==
    /\ (Refreshed /\ CompleteOkDoc /\ response.doc["weather.0.main"] \notin ClosedCategories) =>
          /\ pc # "crashed"
          /\ Truthy(weather.error)
          /\ pc = "printed" => stdout = ErrorOutput(weather, out_format)
    /\ (pc = "print" /\ CompleteOkDoc /\ response.doc["weather.0.main"] \in ClosedCategories) =>
          weather.weather_icon = WeatherIcons[response.doc["weather.0.main"]]

Fallback ==
    <<"S", "o", "m", "e", "t", "h", "i", "n", "g", " ", "w", "e", "n", "t", " ", "w", "r", "o", "n", "g">>

\* C5: a document whose cod is not the success code ends the cycle, without a crash, in an
\* error whose detail is the document's message when it is present and non-empty and the
\* fallback text when it is absent or empty.
C5_ApiError ==
    (Refreshed /\ response.kind = "dict" /\ "cod" \in DOMAIN response.doc
       /\ response.doc["cod"] # IntNum(200)) =>
        /\ pc # "crashed"
        /\ "error_tooltip" \in DOMAIN weather
        /\ weather.error_tooltip =
             IF "message" \in DOMAIN response.doc /\ response.doc["message"] # <<>>
             THEN response.doc["message"] ELSE Fallback

\* the template with every token replaced, in one pass, by its own value; the text of
\* inserted values is not scanned again
\* token i of options occurs in s at position p
TokenAt(s, options, i, p) ==
    /\ p + Len(options[i][1]) - 1 <= Len(s)
    /\ SubSeq(s, p, p + Len(options[i][1]) - 1) = options[i][1]

RECURSIVE Substitute(_, _)
Substitute(s, options) ==
    LET places == {p \in 1..Len(s) : \E i \in 1..Len(options) : TokenAt(s, options, i, p)}
    IN  IF places = {} THEN s
        ELSE LET p == CHOOSE q \in places : \A r \in places : q <= r
                 i == CHOOSE j \in 1..Len(options) : TokenAt(s, options, j, p)
             IN  SubSeq(s, 1, p - 1) \o options[i][2]
                 \o Substitute(SubSeq(s, p + Len(options[i][1]), Len(s)), options)

\* C6: the rendered text and tooltip are the templates with every occurrence of every
\* vocabulary token replaced by that token's value and everything else, the text of the
\* inserted values included, left verbatim.
C6_TokensReplacedVerbatim ==
    (pc = "printed" /\ ~Truthy(weather.error)) =>
        /\ weather.text = Substitute(title_format, FormatOptions(weather))
        /\ weather.tooltip = Substitute(text_format, FormatOptions(weather))

\* C7: in Text mode a cycle prints the primary string on one line and the secondary string
\* on the next, for a snapshot (text, tooltip) and for an error (label, detail) alike, and
\* nothing else.
C7_TextTwoLines ==
    (pc = "printed" /\ out_format) =>
        stdout = IF Truthy(weather.error)
                 THEN weather.error \o <<"\n">> \o weather.error_tooltip \o <<"\n">>
                 ELSE weather.text \o <<"\n">> \o weather.tooltip \o <<"\n">>

\* C8: with interval 0 the process ends after exactly one cycle with exit code 0 whatever
\* the fetch did; with a positive interval it ends only when interrupted, with exit code 0.
C8_Termination ==
    (response.kind = "raise" \/ (response.kind = "dict" /\ "cod" \in DOMAIN response.doc)) =>
        /\ (interval = 0 /\ pc \in {"exited", "crashed"}) =>
              (exit_code = 0 /\ cycle = 1 /\ stdout # <<>>)
        /\ interval # 0 => pc \notin {"exited", "crashed"}
        /\ pc = "interrupted" => exit_code = 0

StyleClasses ==
    { <<"c", "o", "l", "d">>, <<"r", "e", "g", "u", "l", "a", "r">>, <<"w", "a", "r", "m">>,
      <<"h", "o", "t">> }

FiveCelsius == <<"5", "U+00B0", "C">>

\* the snapshot has temperature 5 in the Metric unit and the primary template is {temperature}
FiveMetric ==
    /\ "temperature" \in DOMAIN weather
    /\ weather.temperature = IntNum(5)
    /\ weather.units = "metric"
    /\ title_format = DefaultTitle

Arrows == <<"U+2191", "U+2197", "U+2192", "U+2198", "U+2193", "U+2199", "U+2190", "U+2196">>

Compass == << <<"N">>, <<"N", "E">>, <<"E">>, <<"S", "E">>, <<"S">>, <<"S", "W">>, <<"W">>, <<"N", "W">> >>

\* floor(d / 45) mod 8, stated without division: the 45-degree sector of d on the circle
Sector(d) == CHOOSE b \in 0..7 : \E k \in 0..(d \div 360) : 45 * b + 360 * k <= d /\ d < 45 * (b + 1) + 360 * k

\* C10: for a bearing d the bucket is one of 0..7, is the same for d, d mod 360 and d + 360,
\* and the arrow glyph and the compass name are the entries of the two fixed tables at that
\* one bucket.
C10_WindBucket ==
    (pc = "print" /\ CompleteOkDoc) =>
        LET d == response.doc["wind.deg"].v
            b == Sector(d)
        IN  /\ WindBucket(d) \in 0..7
            /\ WindBucket(d) = b
            /\ WindBucket(d) = WindBucket(d % 360)
            /\ WindBucket(d + 360) = WindBucket(d)
            /\ weather.wind_direction_icon = <<Arrows[b + 1]>>
            /\ weather.wind_direction_text = Compass[b + 1]

\* get_weather has handled the bearing 675 = 315 + 360: north-west
C10_Witness ==
    /\ pc = "print" /\ CompleteOkDoc
    /\ response.doc["wind.deg"].v = 675
    /\ weather.wind_direction_icon = <<"U+2196">>
    /\ weather.wind_direction_text = <<"N", "W">>

====
